---------------------------- MODULE Spec2Model ----------------------------
(***************************************************************************)
(* Model of app.py: the Gradio chat front-end of the RAG backend.          *)
(*                                                                         *)
(*   get_models       the model directory client (GET /models)            *)
(*   _label_to_model  "model_type:name" label -> raw model name            *)
(*   stream_chat      the SSE streaming client (POST /rag-query/stream)    *)
(*   respond          the Gradio submit handler driving stream_chat        *)
(*                                                                         *)
(* Text is a sequence of one-character strings (<<>> is ""), so that       *)
(* split, concatenation and emptiness are computed, not assumed.  Python   *)
(* and JSON values are tagged records: Str(s), None, JArr(items), JObj(f).      *)
(* The lines of the response are text lines, as iter_lines delivers them.  *)
(***************************************************************************)
EXTENDS Integers, Sequences, FiniteSets, TLC

\* ---------------------------------------------------------------- bounds
MaxModels == 3      \* descriptors in a /models body
MaxTurns  == 2      \* turns submitted in one session
MaxLines  == 3      \* lines read from one response before its last line

\* ---------------------------------------------------------------- values
None   == [t |-> "null"]
Str(s) == [t |-> "str", s |-> s]
JArr(items) == [t |-> "arr", items |-> items]
JObj(f) == [t |-> "obj", fields |-> f]

\* Python truthiness of an Optional[str]: None and "" are falsy.
Truthy(v) == v.t = "str" /\ v.s # <<>>

\* sequences over S of length at most n
SeqsUpTo(S, n) == UNION {[1..k -> S] : k \in 0..n}

\* position of the first ":" of a text, 0 when there is none
RECURSIVE FirstColonFrom(_, _)
FirstColonFrom(s, i) ==
    IF i > Len(s) THEN 0
    ELSE IF s[i] = ":" THEN i
    ELSE FirstColonFrom(s, i + 1)

FirstColon(s) == FirstColonFrom(s, 1)

\* s.split(":", 1)[1] for a text that contains ":"
AfterFirstColon(s) == SubSeq(s, FirstColon(s) + 1, Len(s))

\* f"{mtype}:{name}"
Label(mtype, name) == mtype \o <<":">> \o name

\* ------------------------------------------------------- model directory
\* grouped.setdefault(model_type, []).append(name): grouped is an
\* insertion-ordered dict, modelled as a sequence of <<model_type, names>>.
RECURSIVE GroupIndex(_, _, _)
GroupIndex(grouped, mtype, i) ==
    IF i > Len(grouped) THEN 0
    ELSE IF grouped[i][1] = mtype THEN i
    ELSE GroupIndex(grouped, mtype, i + 1)

GroupAdd(grouped, m) ==
    LET i == GroupIndex(grouped, m.model_type, 1)
    IN  IF i = 0
        THEN Append(grouped, <<m.model_type, <<m.name>>>>)
        ELSE [grouped EXCEPT ![i] = <<m.model_type, Append(grouped[i][2], m.name)>>]

RECURSIVE GroupModels(_, _)
GroupModels(models, grouped) ==
    IF models = <<>> THEN grouped
    ELSE GroupModels(Tail(models), GroupAdd(grouped, Head(models)))

\* [f"{mtype}:{name}" for mtype, names in grouped.items() for name in names]
RECURSIVE LabelsOf(_, _)
LabelsOf(mtype, names) ==
    IF names = <<>> THEN <<>>
    ELSE <<Label(mtype, Head(names))>> \o LabelsOf(mtype, Tail(names))

RECURSIVE ChoicesOf(_)
ChoicesOf(grouped) ==
    IF grouped = <<>> THEN <<>>
    ELSE LabelsOf(Head(grouped)[1], Head(grouped)[2]) \o ChoicesOf(Tail(grouped))

\* a choice matches the default when c.split(":", 1)[1] == default_model
ChoiceMatches(c, default_model) == Str(AfterFirstColon(c)) = default_model

\* next((c for c in choices if c.split(":", 1)[1] == default_model), None)
RECURSIVE DefaultChoiceOf(_, _)
DefaultChoiceOf(choices, default_model) ==
    IF choices = <<>> THEN None
    ELSE IF ChoiceMatches(Head(choices), default_model) THEN Str(Head(choices))
    ELSE DefaultChoiceOf(Tail(choices), default_model)

\* the fetch without raise_for_status
FetchFailsUnchecked(resp) ==
    \/ resp.net = "error"
    \/ resp.body.parse = "bad"

\* the request of line 43-45 fails: transport error, raise_for_status on a
\* non-success status, or resp.json() on a body that is not JSON
FetchFails(resp) ==
    \/ resp.net = "error"
    \/ resp.status \notin 200..299
    \/ resp.body.parse = "bad"

\* get_models(): raised is the exception that escapes to the caller
get_models(resp) ==
    IF FetchFails(resp)
    THEN [raised |-> "none", choices |-> <<>>, default_choice |-> None]
    ELSE LET data == resp.body.value IN
         IF data.t # "obj"
         THEN [raised |-> "AttributeError", choices |-> <<>>, default_choice |-> None]
         ELSE LET default_model ==
                      IF "default_model" \in DOMAIN data.fields
                      THEN data.fields["default_model"] ELSE None
                  models ==
                      IF "models" \in DOMAIN data.fields
                      THEN data.fields["models"] ELSE <<>>
                  choices == ChoicesOf(GroupModels(models, <<>>))
              IN  [raised |-> "none", choices |-> choices,
                   default_choice |-> DefaultChoiceOf(choices, default_model)]

\* _label_to_model(choice)
label_to_model(choice) ==
    IF ~Truthy(choice) THEN None
    ELSE IF FirstColon(choice.s) # 0 THEN Str(AfterFirstColon(choice.s))
    ELSE choice

\* ------------------------------------------------------ streaming client
\* One line of the response body: its leading characters (prefix) and the
\* rest (pad: surrounded by white space; syn: what the text is; val: the
\* JSON value it denotes when syn = "json").
RawLine(prefix, pad, syn, val) ==
    [prefix |-> prefix, pad |-> pad, syn |-> syn, val |-> val]

\* not raw
IsEmptyLine(raw) == raw.prefix = "" /\ raw.syn = "blank" /\ ~raw.pad

\* the prefix is accepted without its space
StartsWithDataNoSpace(raw) == raw.prefix \in {"data: ", "data:"}

\* raw.startswith(b"data: ")
StartsWithData(raw) == raw.prefix = "data: "

\* raw[len(b"data: "):].decode()
PayloadOf(raw) == [pad |-> raw.pad, syn |-> raw.syn, val |-> raw.val]

\* the payload is compared without being stripped
StripNothing(data) == data

\* data.strip()
Strip(data) == [data EXCEPT !.pad = FALSE]

\* the text "[DONE]"
DoneText == [pad |-> FALSE, syn |-> "done", val |-> None]

\* json.loads(data): white space around a JSON text is accepted
json_loads(data) ==
    IF data.syn = "json" THEN [ok |-> TRUE, value |-> data.val]
    ELSE [ok |-> FALSE, value |-> None]

\* the content is also looked up in the nested choices/delta envelope
GetContentOrNested(chunk) ==
    IF "content" \in DOMAIN chunk.fields THEN chunk.fields["content"]
    ELSE IF "choices" \in DOMAIN chunk.fields
         THEN chunk.fields["choices"].items[1].fields["delta"].fields["content"]
         ELSE Str(<<>>)

\* chunk.get("content", "") of a dict
GetContent(chunk) ==
    IF "content" \in DOMAIN chunk.fields THEN chunk.fields["content"]
    ELSE Str(<<>>)

\* what one pass through the body of the for loop does
Continue     == [op |-> "continue", token |-> None, exc |-> "none"]
Break        == [op |-> "break", token |-> None, exc |-> "none"]
Yield(token) == [op |-> "yield", token |-> token, exc |-> "none"]
Raise(exc)   == [op |-> "raise", token |-> None, exc |-> exc]

\* the loop body with a token yielded only when it is non-empty
LineStepSkipEmpty(raw) ==
    IF IsEmptyLine(raw) THEN Continue
    ELSE IF ~StartsWithData(raw) THEN Continue
    ELSE LET data == PayloadOf(raw) IN
         IF Strip(data) = DoneText THEN Break
         ELSE LET parsed == json_loads(data) IN
              IF ~parsed.ok THEN Continue
              ELSE IF parsed.value.t # "obj"
                   THEN Raise("AttributeError")
                   ELSE IF Truthy(GetContent(parsed.value))
                        THEN Yield(GetContent(parsed.value))
                        ELSE Continue

\* the loop body without the try/except around json.loads
LineStepNoCatch(raw) ==
    IF IsEmptyLine(raw) THEN Continue
    ELSE IF ~StartsWithData(raw) THEN Continue
    ELSE LET data == PayloadOf(raw) IN
         IF Strip(data) = DoneText THEN Break
         ELSE LET parsed == json_loads(data) IN
              IF ~parsed.ok THEN Raise("JSONDecodeError")
              ELSE IF parsed.value.t # "obj"
                   THEN Raise("AttributeError")
                   ELSE Yield(GetContent(parsed.value))

\* the body of the for loop of stream_chat on one line
LineStep(raw) ==
    IF IsEmptyLine(raw) THEN Continue
    ELSE IF ~StartsWithData(raw) THEN Continue
    ELSE LET data == PayloadOf(raw) IN
         IF Strip(data) = DoneText THEN Break
         ELSE LET parsed == json_loads(data) IN
              IF ~parsed.ok THEN Continue
              ELSE IF parsed.value.t # "obj"
                   THEN Raise("AttributeError")
                   ELSE Yield(GetContent(parsed.value))

\* the user-only history: assistant messages are not sent
RECURSIVE history_flat_user_only(_)
history_flat_user_only(prev_pairs) ==
    IF prev_pairs = <<>> THEN <<>>
    ELSE (IF Head(prev_pairs)[1] # <<>> THEN <<Head(prev_pairs)[1]>> ELSE <<>>)
         \o history_flat_user_only(Tail(prev_pairs))

\* history_flat of lines 90-95: empty messages are left out
RECURSIVE history_flat(_)
history_flat(prev_pairs) ==
    IF prev_pairs = <<>> THEN <<>>
    ELSE LET user_msg      == Head(prev_pairs)[1]
             assistant_msg == Head(prev_pairs)[2]
         IN  (IF user_msg # <<>> THEN <<user_msg>> ELSE <<>>)
             \o (IF assistant_msg # <<>> THEN <<assistant_msg>> ELSE <<>>)
             \o history_flat(Tail(prev_pairs))

\* the unfinished last turn is not cut off
prev_pairs_all(chat_history) == chat_history

\* chat_history[:-1]
prev_pairs_of(chat_history) == SubSeq(chat_history, 1, Len(chat_history) - 1)

\* the body with the model key always set
payload_with_model(question, chat_history, choice) ==
    [question |-> question,
     history |-> history_flat(prev_pairs_of(chat_history)),
     model |-> label_to_model(choice)]

\* the JSON body of lines 97-104
payload_of(question, chat_history, choice) ==
    LET model == label_to_model(choice)
        history == history_flat(prev_pairs_of(chat_history))
    IN  IF Truthy(model)
        THEN [question |-> question, history |-> history, model |-> model]
        ELSE [question |-> question, history |-> history]

\* --------------------------------------------------------------- inputs
ModelTypes == {<<"t">>, <<"t", ":", "u">>}
ModelNames == {<<>>, <<"n">>, <<"u", ":", "n">>}
Descriptors == [model_type : ModelTypes, name : ModelNames]
DefaultModels == {None, Str(<<"m">>)} \cup {Str(n) : n \in ModelNames}

Directories ==
    {JObj([models |-> ms, default_model |-> d]) :
        ms \in SeqsUpTo(Descriptors, MaxModels), d \in DefaultModels}
    \cup {JObj([models |-> ms]) : ms \in SeqsUpTo(Descriptors, 1)}
    \cup {JObj([default_model |-> Str(<<"n">>)])}

Bodies == {[parse |-> "bad", value |-> None]}
          \cup {[parse |-> "ok", value |-> v] : v \in Directories \cup {JArr(<<>>)}}

NetError == [net |-> "error", status |-> 0, body |-> [parse |-> "bad", value |-> None]]
Responses == {NetError} \cup [net : {"ok"}, status : {200, 500}, body : Bodies]

\* the directory the chat sessions start from
BootResponses ==
    {[net |-> "ok", status |-> 200,
      body |-> [parse |-> "ok",
                value |-> JObj([models |-> << [model_type |-> <<"t">>, name |-> <<"n">>],
                                              [model_type |-> <<"t">>, name |-> <<>>],
                                              [model_type |-> <<"t", ":", "u">>, name |-> <<"n">>] >>,
                                default_model |-> Str(<<"n">>)])]]}

Messages  == {<<>>, <<"q">>}
Fragments == {<<"a">>, <<"b">>}

DataLine(pad, syn, val) == RawLine("data: ", pad, syn, val)
Flat(v)     == DataLine(FALSE, "json", JObj([content |-> v]))
Nested(v)   == DataLine(FALSE, "json",
                 JObj([choices |-> JArr(<<JObj([delta |-> JObj([content |-> v])])>>)]))
EmptyLine   == RawLine("", FALSE, "blank", None)
CommentLine == RawLine(": ", FALSE, "text", None)
DoneLine    == DataLine(FALSE, "done", None)
DonePadded  == DataLine(TRUE, "done", None)
BadJson     == DataLine(FALSE, "text", None)
NoSpaceLine == RawLine("data:", FALSE, "json", JObj([content |-> Str(<<"a">>)]))

Lines ==
    {EmptyLine, CommentLine, NoSpaceLine, DoneLine, DonePadded, BadJson,
     Flat(None), Flat(Str(<<>>)),
     DataLine(FALSE, "json", JObj(<<>>)),
     DataLine(FALSE, "json", JArr(<<>>)),
     Nested(Str(<<"a">>))}
    \cup {Flat(Str(f)) : f \in Fragments}

\* the lines that decide how a turn of a longer session ends
SessionLines == {Flat(Str(<<"a">>)), Flat(None), DoneLine}

\* ---------------------------------------------------------------- state
VARIABLES
    models_resp,       \* the backend's answer to GET /models
    CHOICES,           \* module global: the dropdown labels
    DEFAULT_CHOICE,    \* module global: the label selected at start
    pc,                \* boot, crashed, idle, request, receiving, done, failed
    chatbot,           \* the transcript the Chatbot component shows
    message,           \* respond: the submitted question
    model_choice,      \* respond: the dropdown's value at submission
    caller_history,    \* respond: the list object the caller passed in
    chat_history,      \* respond: its own list of (user, assistant) turns
    assistant_buffer,  \* respond: the answer accumulated so far
    request,           \* the POST bodies on their way to the backend
    http,              \* the streaming response: status and whether it is open
    received,          \* the lines read from the response in this turn
    outputs,           \* the tokens stream_chat has yielded in this turn
    error              \* the exception that ended the turn, or "none"

vars == <<models_resp, CHOICES, DEFAULT_CHOICE, pc, chatbot, message,
          model_choice, caller_history, chat_history, assistant_buffer, request, http, received, outputs,
          error>>

NoHttp == [status |-> 0, open |-> FALSE]

InitChat ==
    /\ CHOICES = <<>>
    /\ DEFAULT_CHOICE = None
    /\ pc = "boot"
    /\ chatbot = <<>>
    /\ message = <<>>
    /\ model_choice = None
    /\ caller_history = <<>>
    /\ chat_history = <<>>
    /\ assistant_buffer = <<>>
    /\ request = <<>>
    /\ http = NoHttp
    /\ received = <<>>
    /\ outputs = <<>>
    /\ error = "none"

Init == models_resp \in BootResponses /\ InitChat

InitModels == models_resp \in Responses /\ InitChat

\* -------------------------------------------------------------- actions
\* line 62: CHOICES, DEFAULT_CHOICE, MODEL_GROUPS = get_models()
GetModels ==
    /\ pc = "boot"
    /\ LET r == get_models(models_resp) IN
       IF r.raised # "none"
       THEN /\ pc' = "crashed"
            /\ error' = r.raised
            /\ UNCHANGED <<CHOICES, DEFAULT_CHOICE>>
       ELSE /\ pc' = "idle"
            /\ CHOICES' = r.choices
            /\ DEFAULT_CHOICE' = r.default_choice
            /\ UNCHANGED error
    /\ UNCHANGED <<models_resp, chatbot, message, model_choice, caller_history,
                   chat_history, assistant_buffer, request, http, received,
                   outputs>>

\* chat_history.append((message, "")): the caller's list grows as well
ListAppendInPlace(history, turn) ==
    [result |-> Append(history, turn), operand |-> Append(history, turn)]

\* chat_history + [(message, "")]: the result is a new list and the list the
\* caller passed in is left as it was
ListPlus(history, turn) ==
    [result |-> Append(history, turn), operand |-> history]

\* what the dropdown can hand to respond: no selection (None or ""), or one
\* of its labels
Selectable == {None, Str(<<>>)} \cup {Str(CHOICES[i]) : i \in 1..Len(CHOICES)}

\* respond, lines 132-136, and stream_chat up to the POST of line 106:
\* the new turn is appended and shown, the request body is built and sent.
Respond(msg, choice) ==
    /\ pc \in {"idle", "done", "failed"}
    /\ Len(chatbot) < MaxTurns
    /\ LET plus    == ListPlus(chatbot, <<msg, <<>>>>)
           history == plus.result
       IN
       /\ caller_history' = plus.operand
       /\ chat_history' = history
       /\ chatbot' = history
       /\ request' = <<payload_of(msg, history, choice)>>
    /\ message' = msg
    /\ model_choice' = choice
    /\ assistant_buffer' = <<>>
    /\ http' = NoHttp
    /\ received' = <<>>
    /\ outputs' = <<>>
    /\ error' = "none"
    /\ pc' = "request"
    /\ UNCHANGED <<models_resp, CHOICES, DEFAULT_CHOICE>>

\* line 106: the backend answers the POST, or cannot be reached.  A
\* response of any status is read as a stream.
OpenStream(outcome) ==
    /\ pc = "request"
    /\ request' = <<>>
    /\ IF ~outcome.connected
       THEN /\ pc' = "failed"
            /\ error' = "ConnectError"
            /\ UNCHANGED http
       ELSE /\ pc' = "receiving"
            /\ http' = [status |-> outcome.status, open |-> TRUE]
            /\ UNCHANGED error
    /\ UNCHANGED <<models_resp, CHOICES, DEFAULT_CHOICE, chatbot, message,
                   model_choice, caller_history, chat_history,
                   assistant_buffer, received, outputs>>

\* the token is put in front of the buffer
AccumulateReversed(buffer, token) == token \o buffer

\* the token replaces the buffer instead of extending it
AccumulateDelta(buffer, token) == token

\* assistant_buffer += token
Accumulate(buffer, token) == buffer \o token

\* chat_history[-1] = (message, assistant_buffer)
SetLast(history, turn) == [history EXCEPT ![Len(history)] = turn]

\* lines 109-122 and 136-140: one line of the response is read
ReadLine(raw) ==
    /\ pc = "receiving"
    /\ Len(received) < MaxLines \/ LineStep(raw).op \in {"break", "raise"}
    /\ received' = Append(received, raw)
    /\ LET step == LineStep(raw) IN
       CASE step.op = "continue" ->
              UNCHANGED <<pc, http, outputs, assistant_buffer, chat_history,
                          chatbot, error>>
         [] step.op = "break" ->
              /\ pc' = "done"
              /\ http' = [http EXCEPT !.open = FALSE]
              /\ UNCHANGED <<outputs, assistant_buffer, chat_history, chatbot, error>>
         [] step.op = "raise" ->
              /\ pc' = "failed"
              /\ error' = step.exc
              /\ http' = [http EXCEPT !.open = FALSE]
              /\ UNCHANGED <<outputs, assistant_buffer, chat_history, chatbot>>
         [] step.op = "yield" ->
              /\ outputs' = Append(outputs, step.token)
              /\ IF step.token.t # "str"
                 THEN \* assistant_buffer += token raises TypeError
                      /\ pc' = "failed"
                      /\ error' = "TypeError"
                      /\ UNCHANGED <<http, assistant_buffer, chat_history, chatbot>>
                 ELSE LET buffer == Accumulate(assistant_buffer, step.token.s)
                          history == SetLast(chat_history, <<message, buffer>>)
                      IN  /\ assistant_buffer' = buffer
                          /\ chat_history' = history
                          /\ chatbot' = history
                          /\ UNCHANGED <<pc, http, error>>
    /\ UNCHANGED <<models_resp, CHOICES, DEFAULT_CHOICE, message, model_choice,
                   caller_history, request>>

\* line 109: the response body ends without a [DONE] frame
StreamClose ==
    /\ pc = "receiving"
    /\ pc' = "done"
    /\ http' = [http EXCEPT !.open = FALSE]
    /\ UNCHANGED <<models_resp, CHOICES, DEFAULT_CHOICE, chatbot, message,
                   model_choice, caller_history, chat_history,
                   assistant_buffer, request, received, outputs, error>>

\* the response is left as it is when the generator goes away
ExitWithout(h) == h

\* lines 106-108: leaving the with block closes the response
ExitWith(h) == [h EXCEPT !.open = FALSE]

\* lines 122 and 140: respond is suspended at the yield that follows a
\* token, stream_chat at the yield of that token inside the with block, and
\* the caller stops asking for the next transcript
Abandon ==
    /\ pc = "receiving"
    /\ received # <<>>
    /\ LineStep(received[Len(received)]).op = "yield"
    /\ pc' = "abandoned"
    /\ UNCHANGED <<models_resp, CHOICES, DEFAULT_CHOICE, chatbot, message,
                   model_choice, caller_history, chat_history,
                   assistant_buffer, request, http, received, outputs, error>>

\* lines 106-122: the suspended stream_chat generator is no longer referenced
\* (the caller dropped respond, or respond ended with a TypeError), Python
\* closes it, GeneratorExit is raised at its yield and leaves the with block
Finalize ==
    /\ pc \in {"abandoned", "failed"}
    /\ http.open
    /\ http' = ExitWith(http)
    /\ pc' = IF pc = "abandoned" THEN "cancelled" ELSE pc
    /\ UNCHANGED <<models_resp, CHOICES, DEFAULT_CHOICE, chatbot, message,
                   model_choice, caller_history, chat_history,
                   assistant_buffer, request, received, outputs, error>>

\* what can come back from the POST: no connection, or a response
Outcomes == {[connected |-> FALSE, status |-> 0]}
            \cup [connected : {TRUE}, status : {200, 500}]

\* a session of up to MaxTurns turns
Next ==
    \/ GetModels
    \/ \E msg \in Messages, c \in Selectable : Respond(msg, c)
    \/ \E outcome \in Outcomes : OpenStream(outcome)
    \/ \E raw \in SessionLines : ReadLine(raw)
    \/ StreamClose

Spec == Init /\ [][Next]_vars

\* the first turn of a session, on every kind of line
NextStream ==
    \/ GetModels
    \/ \E msg \in Messages, c \in Selectable : pc = "idle" /\ Respond(msg, c)
    \/ \E outcome \in Outcomes : OpenStream(outcome)
    \/ \E raw \in Lines : ReadLine(raw)
    \/ StreamClose

SpecStream == Init /\ [][NextStream]_vars

\* the lines of a turn that the caller may abandon
CancelLines == {Flat(Str(<<"a">>)), Flat(Str(<<>>)), Flat(None), CommentLine,
                DoneLine}

\* the first turn of a session, which the caller may abandon at a yield
NextCancel ==
    \/ GetModels
    \/ \E msg \in Messages, c \in Selectable : pc = "idle" /\ Respond(msg, c)
    \/ \E outcome \in Outcomes : OpenStream(outcome)
    \/ \E raw \in CancelLines : ReadLine(raw)
    \/ StreamClose
    \/ Abandon
    \/ Finalize

\* Python closes a generator that is no longer referenced
SpecCancel == Init /\ [][NextCancel]_vars /\ WF_vars(Finalize)

\* the directory client alone, on every response of the backend
NextModels == GetModels

SpecModels == InitModels /\ [][NextModels]_vars

\* ---------------------------------------------------------------- claims
\* the assistant text of the transcript shown last
AssistantText == chatbot[Len(chatbot)][2]

\* a data frame whose payload is [DONE]
IsDoneFrame(raw) == raw.prefix = "data: " /\ raw.syn = "done"

\* a data frame {"content": <text>}
IsValidFrame(raw) ==
    /\ raw.prefix = "data: "
    /\ raw.syn = "json"
    /\ raw.val.t = "obj"
    /\ DOMAIN raw.val.fields = {"content"}
    /\ raw.val.fields["content"].t = "str"

\* a valid frame with a non-empty fragment
IsContentFrame(raw) == IsValidFrame(raw) /\ raw.val.fields["content"].s # <<>>

\* a data frame whose payload is not JSON
IsMalformedFrame(raw) == raw.prefix = "data: " /\ raw.syn \notin {"json", "done"}

\* a frame in the nested choices/delta envelope
IsNestedFrame(raw) ==
    /\ raw.prefix = "data: "
    /\ raw.syn = "json"
    /\ raw.val.t = "obj"
    /\ "choices" \in DOMAIN raw.val.fields

\* the fragments of the valid frames of a stream, concatenated in order
RECURSIVE ValidText(_)
ValidText(lines) ==
    IF lines = <<>> THEN <<>>
    ELSE (IF IsValidFrame(Head(lines))
          THEN Head(lines).val.fields["content"].s ELSE <<>>)
         \o ValidText(Tail(lines))

\* the tokens yielded so far, concatenated in order
RECURSIVE TokenText(_)
TokenText(tokens) ==
    IF tokens = <<>> THEN <<>>
    ELSE Head(tokens).s \o TokenText(Tail(tokens))

EndsWithDone == received # <<>> /\ IsDoneFrame(received[Len(received)])

\* the lines received before the [DONE] frame, if there is one
Frames == IF EndsWithDone THEN SubSeq(received, 1, Len(received) - 1) ELSE received

\* C1: after valid frames that each carry a non-empty content fragment and a
\* final [DONE] frame, the turn has ended normally and the assistant text of
\* the last transcript, which is the accumulation of the yielded tokens, is
\* the concatenation of the fragments in the order of the frames.
C1_FinalValueIsConcatenation ==
    (EndsWithDone /\ \A i \in 1..Len(Frames) : IsContentFrame(Frames[i]))
    => /\ pc = "done"
       /\ error = "none"
       /\ Len(outputs) = Len(Frames)
       /\ TokenText(outputs) = ValidText(Frames)
       /\ chatbot[Len(chatbot)] = <<message, ValidText(Frames)>>

C1_Witness ==
    /\ pc = "done"
    /\ Len(received) = 3
    /\ EndsWithDone
    /\ IsContentFrame(received[1])
    /\ IsContentFrame(received[2])
    /\ received[1] # received[2]
    /\ AssistantText = ValidText(Frames)
    /\ Len(AssistantText) = 2

\* C2: a turn that ends normally without any frame having carried content
\* has produced exactly one output element, the fallback notice, and its
\* assistant text is that notice.
C2_FallbackNoticeOnEmptyAnswer ==
    LET FallbackNotice == <<"n", "o", " ", "r", "e", "s", "p", "o", "n", "s", "e">>
    IN  (/\ pc = "done"
         /\ \A i \in 1..Len(received) :
                ~IsContentFrame(received[i]) /\ ~IsNestedFrame(received[i]))
        => /\ Len(outputs) = 1
           /\ outputs[1] = Str(FallbackNotice)
           /\ AssistantText = FallbackNotice

\* C3: one frame whose payload is not JSON, at any position among valid
\* frames, does not abort the stream: no exception ends the turn, a [DONE]
\* frame ends it normally, and the answer is the concatenation of the
\* fragments of the valid frames in their order.
C3_MalformedFrameIsSkipped ==
    (/\ \A i \in 1..Len(Frames) : IsValidFrame(Frames[i]) \/ IsMalformedFrame(Frames[i])
     /\ Cardinality({i \in 1..Len(Frames) : IsMalformedFrame(Frames[i])}) = 1)
    => /\ error = "none"
       /\ pc \in {"receiving", "done"}
       /\ EndsWithDone => pc = "done"
       /\ assistant_buffer = ValidText(Frames)
       /\ AssistantText = ValidText(Frames)

C3_Witness ==
    /\ pc = "done"
    /\ Len(received) = 4
    /\ EndsWithDone
    /\ IsContentFrame(received[1])
    /\ IsMalformedFrame(received[2])
    /\ IsContentFrame(received[3])
    /\ received[1] # received[3]
    /\ Len(AssistantText) = 2

\* the turns before the one in progress
PriorTurns == SubSeq(chatbot, 1, Len(chatbot) - 1)

\* [u1, a1, u2, a2, ..., un, an]
Interleaved(turns) ==
    [k \in 1..(2 * Len(turns)) |->
        IF k % 2 = 1 THEN turns[(k + 1) \div 2][1] ELSE turns[k \div 2][2]]

NonEmptyText(txt) == txt # <<>>

C5_HistoryExcludesCurrentTurn ==
    request # <<>>
    => LET history == request[1].history
           earlier == {k \in 1..(2 * Len(PriorTurns)) :
                          Interleaved(PriorTurns)[k] # <<>>}
       IN  /\ Len(history) = Cardinality(earlier)
           /\ \A k \in 1..Len(history) : history[k] # <<>>
           /\ request[1].question = message
           /\ chatbot[Len(chatbot)] = <<message, <<>>>>

C5_Witness ==
    /\ request # <<>>
    /\ message # <<>>
    /\ Len(PriorTurns) = 1
    /\ Len(request[1].history) = 2
    /\ request[1].history[2] # message

\* C6: a turn is only ever read as a stream, or ended normally, when the
\* POST was answered with a success status; a non-success status is a
\* failure of the turn.
C6_OpenFailurePropagates ==
    pc \in {"receiving", "done"} => http.status \in 200..299

\* C7: when the POST could not be opened the handler shows an error notice
\* as the assistant text of the turn.
C7_FailureIsRendered ==
    (pc = "failed" /\ error = "ConnectError") => AssistantText # <<>>

\* C8: when the listing request fails (no connection, a non-success status
\* or a body that is not JSON) get_models returns no identifier and no
\* default, and raises nothing.
C8_FetchFailureGivesEmptyDirectory ==
    (/\ pc # "boot"
     /\ \/ models_resp.net = "error"
        \/ models_resp.status >= 400
        \/ models_resp.body.parse = "bad")
    => /\ pc = "idle"
       /\ error = "none"
       /\ CHOICES = <<>>
       /\ DEFAULT_CHOICE = None

C8_Witness ==
    /\ pc = "idle"
    /\ models_resp.net = "ok"
    /\ models_resp.status = 500
    /\ models_resp.body.parse = "ok"
    /\ models_resp.body.value.t = "obj"
    /\ "models" \in DOMAIN models_resp.body.value.fields
    /\ Len(models_resp.body.value.fields["models"]) > 0
    /\ CHOICES = <<>>
    /\ DEFAULT_CHOICE = None

HasModelKey(body) == "model" \in DOMAIN body

\* the label has nothing after its first colon, as in "openai:"
EndsAtFirstColon(label) ==
    /\ label # <<>>
    /\ label[Len(label)] = ":"
    /\ \A j \in 1..(Len(label) - 1) : label[j] # ":"

\* C9 as stated: the request body has no model key when no selection was
\* made, never a null or empty model value, and has the key whenever a
\* selection was made.
C9_ModelKeyFollowsSelection ==
    request # <<>>
    => /\ ~Truthy(model_choice) => ~HasModelKey(request[1])
       /\ HasModelKey(request[1]) => Truthy(request[1].model)
       /\ Truthy(model_choice) => HasModelKey(request[1])

\* C9 as amended: the request body has no model key when no selection was
\* made or when the selected label has nothing after its first colon, never
\* a null or empty model value, and has the key for every other selection.
C9_ModelKeyFollowsName ==
    request # <<>>
    => LET unnamed == ~Truthy(model_choice) \/ EndsAtFirstColon(model_choice.s)
       IN  /\ unnamed => ~HasModelKey(request[1])
           /\ HasModelKey(request[1]) => Truthy(request[1].model)
           /\ ~unnamed => HasModelKey(request[1])

C9_Witness ==
    /\ request # <<>>
    /\ model_choice = Str(<<"t", ":", "n">>)
    /\ HasModelKey(request[1])
    /\ request[1].model = Str(<<"n">>)

\* C10: for a directory the backend returned, the default is the identifier
\* of a listed model whose name is default_model when a listed model has
\* that name, and None otherwise.
C10_DefaultMatchesByName ==
    (/\ pc = "idle"
     /\ models_resp.net = "ok"
     /\ models_resp.status = 200
     /\ models_resp.body.parse = "ok")
    => LET data   == models_resp.body.value.fields
           models == IF "models" \in DOMAIN data THEN data["models"] ELSE <<>>
           wanted == IF "default_model" \in DOMAIN data
                     THEN data["default_model"] ELSE None
           named  == {k \in 1..Len(models) : Str(models[k].name) = wanted}
       IN  IF named # {}
           THEN \E k \in named :
                   /\ DEFAULT_CHOICE = Str(Label(models[k].model_type, models[k].name))
                   /\ \E i \in 1..Len(CHOICES) : Str(CHOICES[i]) = DEFAULT_CHOICE
           ELSE DEFAULT_CHOICE = None

\* a data frame whose payload is a JSON object
IsObjectFrame(raw) == raw.prefix = "data: " /\ raw.syn = "json" /\ raw.val.t = "obj"

\* the value of the content field of an object frame, "" without the field
FlatContent(raw) ==
    IF "content" \in DOMAIN raw.val.fields THEN raw.val.fields["content"]
    ELSE Str(<<>>)

AllText(tokens) == \A k \in 1..Len(tokens) : tokens[k].t = "str"

InTurn == pc \in {"receiving", "done", "failed"}

\* the POST was answered and its response is or was being read
StreamOpened == InTurn /\ http.status # 0

\* C11 as stated: on a stream of content frames the k-th value stream_chat
\* produced is the concatenation of the first k fragments.
C11_OutputsAreAccumulated ==
    (\A i \in 1..Len(Frames) : IsContentFrame(Frames[i]))
    => \A k \in 1..Len(outputs) :
          outputs[k] = Str(ValidText(SubSeq(Frames, 1, k)))

\* C11 as amended: the k-th value stream_chat produced is the delta, the
\* content of the k-th object frame in arrival order; respond accumulates
\* them, so the assistant text shown after k values is the concatenation of
\* the first k fragments.
C11_OutputsAreDeltas ==
    LET objs == SelectSeq(received, IsObjectFrame) IN
    /\ Len(outputs) = Len(objs)
    /\ \A k \in 1..Len(outputs) : outputs[k] = FlatContent(objs[k])
    /\ (InTurn /\ AllText(outputs))
       => /\ assistant_buffer = TokenText(outputs)
          /\ AssistantText = TokenText(outputs)

C11_Witness ==
    /\ pc = "receiving"
    /\ Len(received) = 2
    /\ outputs = <<Str(<<"a">>), Str(<<"b">>)>>
    /\ AssistantText = <<"a", "b">>

\* choices[0].delta.content of a frame in the nested envelope
NestedContent(raw) ==
    raw.val.fields["choices"].items[1].fields["delta"].fields["content"]

\* the fragment a frame carries in the flat or else in the nested field
EitherFragment(raw) ==
    IF IsValidFrame(raw) THEN raw.val.fields["content"].s
    ELSE IF IsNestedFrame(raw) THEN NestedContent(raw).s
    ELSE <<>>

RECURSIVE EitherText(_)
EitherText(lines) ==
    IF lines = <<>> THEN <<>>
    ELSE EitherFragment(Head(lines)) \o EitherText(Tail(lines))

\* a frame with a flat content text, a nested content, or neither field
IsEnvelopeFrame(raw) ==
    \/ IsValidFrame(raw)
    \/ IsNestedFrame(raw)
    \/ IsObjectFrame(raw) /\ DOMAIN raw.val.fields = {}

\* C12 as stated: the fragment is read from the flat content field or else
\* from choices[0].delta.content, so the answer is the concatenation of the
\* fragments of the frames in either form.
C12_NestedEnvelopeIsRead ==
    (StreamOpened /\ \A i \in 1..Len(Frames) : IsEnvelopeFrame(Frames[i]))
    => /\ error = "none"
       /\ assistant_buffer = EitherText(Frames)

\* C12 as amended: the fragment is read from the flat content field only; a
\* frame in the nested envelope, like a frame with neither field, yields the
\* empty fragment, so the answer is the concatenation of the flat fragments.
C12_OnlyFlatContentIsRead ==
    (StreamOpened /\ \A i \in 1..Len(Frames) : IsEnvelopeFrame(Frames[i]))
    => /\ error = "none"
       /\ Len(outputs) = Len(Frames)
       /\ \A i \in 1..Len(Frames) :
             ~IsValidFrame(Frames[i]) => outputs[i] = Str(<<>>)
       /\ assistant_buffer = ValidText(Frames)
       /\ AssistantText = ValidText(Frames)

C12_Witness ==
    /\ pc = "done"
    /\ Len(received) = 3
    /\ EndsWithDone
    /\ IsNestedFrame(received[1])
    /\ NestedContent(received[1]) = Str(<<"a">>)
    /\ IsContentFrame(received[2])
    /\ AssistantText = received[2].val.fields["content"].s
    /\ outputs[1] = Str(<<>>)

\* C13: a [DONE] frame, with or without white space around the marker, is
\* the last line read of its stream: the turn has then ended normally, the
\* response is closed, and the outputs are those of the frames before it.
C13_DoneEndsTheTurn ==
    /\ \A i \in 1..(Len(received) - 1) : ~IsDoneFrame(received[i])
    /\ EndsWithDone
       => /\ pc = "done"
          /\ error = "none"
          /\ ~http.open
          /\ Len(outputs) = Len(SelectSeq(Frames, IsObjectFrame))
          /\ assistant_buffer = TokenText(outputs)

C13_Witness ==
    /\ pc = "done"
    /\ Len(received) = 2
    /\ IsContentFrame(received[1])
    /\ IsDoneFrame(received[2])
    /\ received[2].pad
    /\ Len(outputs) = 1
    /\ ~http.open

\* the positions of the received lines that satisfy P
Positions(P(_)) == {i \in 1..Len(received) : P(received[i])}

IsEmptyFragmentFrame(raw) == IsObjectFrame(raw) /\ FlatContent(raw) = Str(<<>>)

\* C14 as stated: the number of elements produced for a turn is the number
\* of frames with a non-empty fragment.
C14_EmptyFragmentsProduceNothing ==
    Len(outputs) = Cardinality(Positions(IsContentFrame))

\* C14 as amended: every object frame produces an element, the empty string
\* when its fragment is empty, and the empty elements leave the accumulated
\* answer as the concatenation of the non-empty fragments.
C14_EmptyFragmentsProduceEmptyElements ==
    /\ Len(outputs) = Cardinality(Positions(IsObjectFrame))
    /\ Cardinality({k \in 1..Len(outputs) : outputs[k] = Str(<<>>)})
         = Cardinality(Positions(IsEmptyFragmentFrame))
    /\ (InTurn /\ AllText(outputs))
       => assistant_buffer = ValidText(SelectSeq(received, IsContentFrame))

C14_Witness ==
    /\ pc = "done"
    /\ Len(received) = 3
    /\ IsContentFrame(received[1])
    /\ IsValidFrame(received[2])
    /\ IsEmptyFragmentFrame(received[2])
    /\ outputs = <<FlatContent(received[1]), Str(<<>>)>>
    /\ AssistantText = FlatContent(received[1]).s

\* a frame of valid JSON without a content text: no content field, a
\* content that is not text, or a value that is not an object
IsShapelessFrame(raw) ==
    raw.prefix = "data: " /\ raw.syn = "json" /\ ~IsValidFrame(raw)

\* C15: frames of valid JSON that lack the expected shape are dropped and
\* the stream goes on: the turn does not fail and the answer is the
\* concatenation of the fragments of the other frames.
C15_ShapelessFrameIsDropped ==
    (StreamOpened
     /\ \A i \in 1..Len(Frames) : IsValidFrame(Frames[i]) \/ IsShapelessFrame(Frames[i]))
    => /\ error = "none"
       /\ pc \in {"receiving", "done"}
       /\ assistant_buffer = ValidText(Frames)

\* a non-empty line that does not begin with "data: "
IsOtherLine(raw) == ~IsEmptyLine(raw) /\ raw.prefix # "data: "

\* C16: reading a non-empty line that does not begin with "data: " changes
\* neither the accumulated answer nor the outputs nor the transcript, and
\* the turn goes on receiving without an error.
C16_OtherLineIsDiscarded ==
    [][(/\ Len(received') = Len(received) + 1
        /\ IsOtherLine(received'[Len(received')]))
       => /\ pc = "receiving"
          /\ pc' = "receiving"
          /\ assistant_buffer' = assistant_buffer
          /\ outputs' = outputs
          /\ chatbot' = chatbot
          /\ chat_history' = chat_history
          /\ error' = "none"
          /\ http' = http]_vars

C16_Witness ==
    /\ pc = "done"
    /\ Len(received) = 4
    /\ IsContentFrame(received[1])
    /\ IsOtherLine(received[2])
    /\ received[2].syn = "json"
    /\ IsContentFrame(received[3])
    /\ EndsWithDone
    /\ Len(outputs) = 2
    /\ AssistantText = ValidText(Frames)

\* all the turns of a transcript but its last
AllButLast(history) == SubSeq(history, 1, Len(history) - 1)

\* C17: in every step of a turn the list the caller passed in is left as it
\* was, and the turns before the last one of the transcript that respond
\* holds and emits are the caller's turns in their order; only the last
\* turn, the one of the submitted message, changes.
C17_PriorTurnsAreNotModified ==
    [][/\ pc' = "request" => caller_history' = chatbot
       /\ pc \in {"request", "receiving"} => caller_history' = caller_history
       /\ pc' \in {"request", "receiving", "done", "failed"}
          => /\ Len(chatbot') = Len(caller_history') + 1
             /\ AllButLast(chatbot') = caller_history'
             /\ AllButLast(chat_history') = caller_history'
             /\ chatbot'[Len(chatbot')] = <<message', assistant_buffer'>>]_vars

C17_Witness ==
    /\ pc = "done"
    /\ Len(chatbot) = 2
    /\ caller_history = <<chatbot[1]>>
    /\ chatbot[1][1] # <<>>
    /\ chatbot[1][2] # <<>>
    /\ AssistantText # <<>>
    /\ Len(outputs) = 2

\* a step of an abandoned turn reads no line and produces nothing
NothingAfterAbandon ==
    pc \in {"abandoned", "cancelled"}
    => /\ received' = received
       /\ outputs' = outputs
       /\ assistant_buffer' = assistant_buffer
       /\ chatbot' = chatbot
       /\ pc' \in {"abandoned", "cancelled"}

C19_LabelRoundTrip ==
    (/\ pc = "idle"
     /\ models_resp.net = "ok"
     /\ models_resp.status = 200
     /\ models_resp.body.parse = "ok")
    => LET data   == models_resp.body.value.fields
           models == IF "models" \in DOMAIN data THEN data["models"] ELSE <<>>
       IN  \A k \in 1..Len(models) :
              \E i \in 1..Len(CHOICES) :
                 /\ CHOICES[i] = Label(models[k].model_type, models[k].name)
                 /\ label_to_model(Str(CHOICES[i])) = Str(models[k].name)

=============================================================================
